---- MODULE Spec2Model ----
(* A model of the spaced-repetition memory service (storage/memoryService.ts) *)
(* and of the quiz generator (MatchingPairsScreen.tsx: generateQuizLessons).  *)
(* The persisted value under MEMORY_KEY is read and written as one blob; each *)
(* exported function is an async call whose awaits are the model's steps.     *)
EXTENDS Integers, Sequences, FiniteSets, TLC

VARIABLES
    available,   \* typeof AsyncStorage !== 'undefined'
    storage,     \* the value AsyncStorage holds under MEMORY_KEY
    now,         \* the value Date.now() returns
    calls,       \* the async calls in flight, one per slot
    returned,    \* the call that returned last, until the next call is made
    issued,      \* how many calls have been made
    lesson,      \* LessonScreen.handleNextLesson: the batch it awaits with Promise.all
    quizWords,   \* route.params.quizWords of the quiz screen
    quizLessons, \* the QuizScreen state quizLessons
    nav,         \* the screen shown, the alert raised last, and the start handler running
    challenge,   \* a challenge screen: its data, the selection, the feedback
    flash,       \* FlashcardScreen: its state and the handleAnswer calls awaiting their save
    prog,        \* ProgressProvider: its state, the stored progress, the saves in flight
    extract      \* extractWordsFromLessonData: its arguments and what it returned

vars == <<available, storage, now, calls, returned, issued, lesson, quizWords, quizLessons, nav,
         challenge, flash, prog, extract>>

----------------------------------------------------------------------------
(* Bounds of the model *)

MaxScore == 3
MaxNow == 2
MaxInFlight == 2
MaxCalls == 2
MaxSeqCalls == 4
MaxUpdates == 2
MaxLessons == 2
MaxItems == 2

----------------------------------------------------------------------------
(* Item identifiers: strings, as sequences of characters *)

IdA == <<"a">>
IdB == <<"b">>
IdC == <<"c">>
IdD == <<"d">>
IdEmpty == <<>>
IdBlank == <<" ", " ">>
ProtoKey == <<"_", "_", "p", "r", "o", "t", "o", "_", "_">>

RECURSIVE trimStart(_)
trimStart(s) ==
    IF s # <<>> /\ Head(s) = " " THEN trimStart(Tail(s)) ELSE s

RECURSIVE trimEnd(_)
trimEnd(s) ==
    IF s # <<>> /\ s[Len(s)] = " " THEN trimEnd(SubSeq(s, 1, Len(s) - 1)) ELSE s

\* String.prototype.trim
trim(s) == trimEnd(trimStart(s))

\* the validation without trim: only the empty identifier is refused
IsInvalidWordIdNoTrim(wordId) == Len(wordId) = 0

\* !wordId || wordId.trim() === ''
IsInvalidWordId(wordId) == (Len(wordId) = 0) \/ (trim(wordId) = <<>>)

----------------------------------------------------------------------------
(* The WordMemory object: a plain JavaScript object used as a dictionary *)

Ratings == {"Badly", "Partly", "Well"}

EmptyMemory == [k \in {} |-> [score |-> 0, lastSeen |-> 0]]

\* the test taken on the score of the record: a score of 0 is falsy
HasEntryByScore(scores, wordId) ==
    wordId \in DOMAIN scores /\ scores[wordId].score # 0

\* scores[wordId] is truthy: an own property, or the inherited accessor __proto__
HasEntry(scores, wordId) == wordId \in DOMAIN scores \/ wordId = ProtoKey

\* scores[wordId]?.score || 0
ScoreOf(scores, wordId) ==
    IF wordId \in DOMAIN scores THEN scores[wordId].score ELSE 0

\* the lastSeen of an item without a record taken to be Date.now()
LastSeenOfDefaultNow(scores, wordId) ==
    IF wordId \in DOMAIN scores THEN scores[wordId].lastSeen ELSE now

\* scores[wordId]?.lastSeen || 0
LastSeenOf(scores, wordId) ==
    IF wordId \in DOMAIN scores THEN scores[wordId].lastSeen ELSE 0

\* a mapping that holds the record of wordId and nothing else
SetEntryAlone(scores, wordId, rec) == (wordId :> rec)

\* scores[wordId] = rec: assigning __proto__ sets the prototype and adds no own property
SetEntry(scores, wordId, rec) ==
    IF wordId = ProtoKey
    THEN scores
    ELSE [k \in (DOMAIN scores) \cup {wordId} |-> IF k = wordId THEN rec ELSE scores[k]]

\* AsyncStorage.getItem(MEMORY_KEY) resolved: data ? JSON.parse(data) : {}
ParseStored(st) == IF st.present THEN st.data ELSE EmptyMemory

\* AsyncStorage.setItem(MEMORY_KEY, JSON.stringify(scores)) resolved
Stored(scores) == [present |-> TRUE, data |-> scores]

\* the switch with 'Badly' taking one point instead of two
NewScoreBadlyByOne(currentScore, rating) ==
    CASE rating = "Badly" -> IF currentScore - 1 > 0 THEN currentScore - 1 ELSE 0
      [] rating = "Partly" -> currentScore
      [] rating = "Well" -> currentScore + 1

\* the switch without Math.max(0, ...)
NewScoreNoFloor(currentScore, rating) ==
    CASE rating = "Badly" -> currentScore - 2
      [] rating = "Partly" -> currentScore
      [] rating = "Well" -> currentScore + 1

\* the switch on the rating in saveWordMemory
NewScore(currentScore, rating) ==
    CASE rating = "Badly" -> IF currentScore - 2 > 0 THEN currentScore - 2 ELSE 0
      [] rating = "Partly" -> currentScore
      [] rating = "Well" -> currentScore + 1

\* the update with 'Partly' leaving lastSeen as it was
SaveUpdatePartlyKeepsLastSeen(scores, wordId, rating, t) ==
    SetEntry(scores, wordId,
             [score |-> NewScore(ScoreOf(scores, wordId), rating),
              lastSeen |-> IF rating = "Partly" THEN LastSeenOf(scores, wordId) ELSE t])

\* the mapping saveWordMemory hands to setItem
SaveUpdate(scores, wordId, rating, t) ==
    SetEntry(scores, wordId,
             [score |-> NewScore(ScoreOf(scores, wordId), rating), lastSeen |-> t])

\* the mapping handed to setItem without the new record
AddUpdateNothing(scores, wordId, t) == scores

\* the mapping addWordMemory hands to setItem
AddUpdate(scores, wordId, t) ==
    SetEntry(scores, wordId, [score |-> 0, lastSeen |-> t])

----------------------------------------------------------------------------
(* getWordsForSession: ranking by score, then lastSeen *)

Word(id) == [word |-> id]

\* the comparator without its tie-break on lastSeen
CompareScoreOnly(a, b) == a.score - b.score

\* the comparator handed to Array.prototype.sort
Compare(a, b) ==
    IF a.score # b.score THEN a.score - b.score ELSE a.lastSeen - b.lastSeen

\* insert x in front of the elements it ties with
RECURSIVE InsertSortedBeforeTies(_, _)
InsertSortedBeforeTies(x, s) ==
    IF s = <<>> THEN <<x>>
    ELSE IF Compare(Head(s), x) < 0
         THEN <<Head(s)>> \o InsertSortedBeforeTies(x, Tail(s))
         ELSE <<x>> \o s

\* insert x behind every element that does not compare greater (a stable sort)
RECURSIVE InsertSorted(_, _)
InsertSorted(x, s) ==
    IF s = <<>> THEN <<x>>
    ELSE IF Compare(Head(s), x) <= 0
         THEN <<Head(s)>> \o InsertSorted(x, Tail(s))
         ELSE <<x>> \o s

\* Array.prototype.sort with the comparator (stable since ES2019)
RECURSIVE SortWords(_)
SortWords(s) ==
    IF s = <<>> THEN <<>>
    ELSE InsertSorted(s[Len(s)], SortWords(SubSeq(s, 1, Len(s) - 1)))

\* allWords.map(word => ({...word, score, lastSeen}))
ScoredWords(allWords, scores) ==
    [i \in 1..Len(allWords) |->
        [word |-> allWords[i].word,
         score |-> ScoreOf(scores, allWords[i].word),
         lastSeen |-> LastSeenOf(scores, allWords[i].word)]]

\* Array.prototype.slice(0, count)
Slice0(s, count) ==
    LET n == Len(s)
        end == IF count < 0 THEN (IF n + count < 0 THEN 0 ELSE n + count)
               ELSE (IF count > n THEN n ELSE count)
    IN SubSeq(s, 1, end)

\* the words of a list of (scored) words
WordsOf(s) == [i \in 1..Len(s) |-> s[i].word]

\* what getWordsForSession returns once the scores are read
RankedSession(allWords, count, scores) ==
    WordsOf(Slice0(SortWords(ScoredWords(allWords, scores)), count))

----------------------------------------------------------------------------
(* The async calls *)

Slots == 1..MaxInFlight

Idle ==
    [op |-> "idle", wordId |-> <<>>, rating |-> "none", allWords |-> <<>>,
     count |-> 0, pc |-> "idle", scores |-> EmptyMemory, readOk |-> TRUE,
     batch |-> FALSE, currentScore |-> 0]

NoReturn ==
    [op |-> "none", wordId |-> <<>>, rating |-> "none", allWords |-> <<>>,
     count |-> 0, outcome |-> "none", readOk |-> TRUE,
     before |-> EmptyMemory, result |-> <<>>, currentScore |-> 0]

\* no screen of the practice flow is open
NoNav ==
    [route |-> "none", from |-> "none", alert |-> "none", pc |-> "idle",
     type |-> "none", words |-> <<>>, flashcardWords |-> <<>>]

\* a card of a matching pairs challenge not selected (null)
NoItem == [signVideo |-> <<>>, translation |-> <<>>, id |-> "null"]

\* no challenge screen is mounted
NoChallenge ==
    [kind |-> "none", array |-> <<>>, target |-> [word |-> <<>>, signVideo |-> <<>>],
     correctAnswer |-> <<>>, options |-> <<>>, items |-> <<>>,
     shuffledVideos |-> <<>>, shuffledTexts |-> <<>>,
     selectedOption |-> <<>>, selectedVideo |-> NoItem, selectedText |-> NoItem,
     showFeedback |-> FALSE, isCorrect |-> FALSE]

\* no flashcard session is open
NoFlash ==
    [words |-> <<>>, currentIndex |-> 0, isShowingAnswer |-> FALSE,
     selectedRating |-> "none", awaiting |-> <<>>, saves |-> <<>>,
     complete |-> FALSE]

\* no progress provider is mounted
NoProgress ==
    [userProgress |-> <<>>, isLoadingProgress |-> TRUE, effectDue |-> FALSE,
     stored |-> [present |-> FALSE, data |-> <<>>], queue |-> <<>>,
     initial |-> <<>>, loaded |-> <<>>, given |-> <<>>, saves |-> 0, written |-> 0,
     updates |-> 0]

\* extractWordsFromLessonData has not been called
NoExtract ==
    [data |-> [t |-> "null"], lessonType |-> "none", pc |-> "idle", words |-> <<>>]

NoLesson == [words |-> <<>>, pc |-> "idle", fresh |-> TRUE, failed |-> FALSE]

\* the promise of call c settles: what it was asked, what it did, what it returned
Settled(c, outcome, result) ==
    [op |-> c.op, wordId |-> c.wordId, rating |-> c.rating, allWords |-> c.allWords,
     count |-> c.count, outcome |-> outcome, readOk |-> c.readOk,
     before |-> storage.data, result |-> result, currentScore |-> c.currentScore]

NewCall(op, wordId, rating, allWords, count, batch) ==
    [op |-> op, wordId |-> wordId, rating |-> rating, allWords |-> allWords,
     count |-> count, pc |-> "reading", scores |-> EmptyMemory, readOk |-> TRUE,
     batch |-> batch, currentScore |-> 0]

\* getMemoryScores without its catch: the stored mapping whatever getItem does
getMemoryScoresStored(ok) == ParseStored(storage)

\* getMemoryScores: the mapping the caller gets when getItem settles with `ok`
getMemoryScores(ok) ==
    IF available /\ ok THEN ParseStored(storage) ELSE EmptyMemory

\* saveWordMemory is called: it runs up to its first await
saveWordMemoryCalled(slot, wordId, rating, budget) ==
    /\ calls[slot].op = "idle"
    /\ issued < budget
    /\ issued' = issued + 1
    /\ LET c == NewCall("save", wordId, rating, <<>>, 0, FALSE)
       IN IF ~available
          THEN /\ returned' = Settled(c, "unavailable", <<>>)
               /\ UNCHANGED calls
          ELSE /\ calls' = [calls EXCEPT ![slot] = c]
               /\ returned' = NoReturn
    /\ UNCHANGED <<available, storage, now, lesson, quizWords, quizLessons, nav,
                   challenge, prog, extract>>

\* saveWordMemory up to its first await, called outside a flashcard session
SaveStart(slot, wordId, rating, budget) ==
    /\ saveWordMemoryCalled(slot, wordId, rating, budget)
    /\ UNCHANGED flash

\* saveWordMemory from the settled read to the setItem it issues
SaveRead(slot, ok) ==
    /\ calls[slot].op = "save"
    /\ calls[slot].pc = "reading"
    /\ LET c == [calls[slot] EXCEPT !.readOk = ok]
           scores == getMemoryScores(ok)
       IN /\ (c.rating = "Well" => ScoreOf(scores, c.wordId) < MaxScore)
          /\ IF IsInvalidWordId(c.wordId)
             THEN /\ returned' = Settled(c, "invalid", <<>>)
                  /\ calls' = [calls EXCEPT ![slot] = Idle]
             ELSE /\ calls' = [calls EXCEPT ![slot] =
                                 [c EXCEPT !.pc = "writing",
                                           !.currentScore = ScoreOf(scores, c.wordId),
                                           !.scores = SaveUpdate(scores, c.wordId, c.rating, now)]]
                  /\ UNCHANGED returned
    /\ UNCHANGED <<available, storage, now, issued, lesson, quizWords, quizLessons, nav,
                   challenge, flash, prog, extract>>

\* the write as a per-item patch of the mapping stored at that moment
WriteSettlesPatching(slot, ok) ==
    /\ calls[slot].pc = "writing"
    /\ storage' = IF ok
                  THEN Stored(IF calls[slot].op = "save"
                              THEN SaveUpdate(storage.data, calls[slot].wordId,
                                              calls[slot].rating, now)
                              ELSE AddUpdate(storage.data, calls[slot].wordId, now))
                  ELSE storage
    /\ returned' = Settled(calls[slot], IF ok THEN "written" ELSE "writeFailed", <<>>)
    /\ calls' = [calls EXCEPT ![slot] = Idle]
    /\ UNCHANGED <<available, now, issued, quizWords, quizLessons, nav,
                   challenge, flash, prog, extract>>

\* setItem settles: the write is applied, or it is rejected and caught
WriteSettles(slot, ok) ==
    /\ calls[slot].pc = "writing"
    /\ storage' = IF ok THEN Stored(calls[slot].scores) ELSE storage
    /\ returned' = Settled(calls[slot], IF ok THEN "written" ELSE "writeFailed", <<>>)
    /\ calls' = [calls EXCEPT ![slot] = Idle]
    /\ UNCHANGED <<available, now, issued, quizWords, quizLessons, nav,
                   challenge, flash, prog, extract>>

\* saveWordMemory from the settled setItem to its return
SaveWrite(slot, ok) ==
    /\ calls[slot].op = "save"
    /\ WriteSettles(slot, ok)
    /\ UNCHANGED lesson

\* Promise.all: the batch is settled once its last call has settled
BatchAfter(slot, ok, settles) ==
    IF ~calls[slot].batch THEN lesson
    ELSE [lesson EXCEPT
            !.failed = @ \/ ~ok,
            !.pc = IF settles /\ \A other \in Slots \ {slot} : ~calls[other].batch
                   THEN "done" ELSE @]

\* addWordMemory up to its first await
AddStart(slot, wordId, budget) ==
    /\ calls[slot].op = "idle"
    /\ issued < budget
    /\ issued' = issued + 1
    /\ LET c == NewCall("add", wordId, "none", <<>>, 0, FALSE)
       IN IF ~available
          THEN /\ returned' = Settled(c, "unavailable", <<>>)
               /\ UNCHANGED calls
          ELSE /\ calls' = [calls EXCEPT ![slot] = c]
               /\ returned' = NoReturn
    /\ UNCHANGED <<available, storage, now, lesson, quizWords, quizLessons, nav,
                   challenge, flash, prog, extract>>

\* addWordMemory from the settled read to the setItem it issues
AddRead(slot, ok) ==
    /\ calls[slot].op = "add"
    /\ calls[slot].pc = "reading"
    /\ LET c == [calls[slot] EXCEPT !.readOk = ok]
           scores == getMemoryScores(ok)
       IN IF HasEntry(scores, c.wordId)
          THEN /\ returned' = Settled(c, "skipped", <<>>)
               /\ calls' = [calls EXCEPT ![slot] = Idle]
               /\ lesson' = BatchAfter(slot, ok, TRUE)
          ELSE /\ calls' = [calls EXCEPT ![slot] =
                              [c EXCEPT !.pc = "writing",
                                        !.scores = AddUpdate(scores, c.wordId, now)]]
               /\ lesson' = BatchAfter(slot, ok, FALSE)
               /\ UNCHANGED returned
    /\ UNCHANGED <<available, storage, now, issued, quizWords, quizLessons, nav,
                   challenge, flash, prog, extract>>

\* addWordMemory from the settled setItem to its return
AddWrite(slot, ok) ==
    /\ calls[slot].op = "add"
    /\ WriteSettles(slot, ok)
    /\ lesson' = BatchAfter(slot, ok, TRUE)

\* handleNextLesson: wordsToSave.map(addWordMemory), every call up to its first await
handleNextLesson(wordsToSave, budget) ==
    /\ lesson.pc # "awaiting"
    /\ Len(wordsToSave) <= MaxInFlight
    /\ \A slot \in Slots : calls[slot].op = "idle"
    /\ issued + Len(wordsToSave) <= budget
    /\ issued' = issued + Len(wordsToSave)
    /\ calls' = IF ~available THEN calls
                ELSE [slot \in Slots |->
                        IF slot <= Len(wordsToSave)
                        THEN NewCall("add", wordsToSave[slot], "none", <<>>, 0, TRUE)
                        ELSE Idle]
    /\ lesson' = [words |-> wordsToSave,
                  pc |-> IF ~available \/ Len(wordsToSave) = 0 THEN "done" ELSE "awaiting",
                  fresh |-> \A i \in 1..Len(wordsToSave) :
                                wordsToSave[i] \notin DOMAIN storage.data,
                  failed |-> FALSE]
    /\ returned' = NoReturn
    /\ UNCHANGED <<available, storage, now, quizWords, quizLessons, nav,
                   challenge, flash, prog, extract>>

\* the short circuit taken only below count
ShortCircuitStrict(allWords, count) == Len(allWords) < count

\* allWords.length <= count: getWordsForSession returns allWords as they are
ShortCircuit(allWords, count) == Len(allWords) <= count

\* getWordsForSession up to its return or its first await
SelectStart(slot, allWords, count, budget) ==
    /\ calls[slot].op = "idle"
    /\ issued < budget
    /\ issued' = issued + 1
    /\ LET c == NewCall("select", <<>>, "none", allWords, count, FALSE)
       IN IF Len(allWords) = 0
          THEN /\ returned' = Settled(c, "selected", <<>>)
               /\ UNCHANGED calls
          ELSE IF ShortCircuit(allWords, count)
          THEN /\ returned' = Settled(c, "selected", WordsOf(allWords))
               /\ UNCHANGED calls
          ELSE /\ calls' = [calls EXCEPT ![slot] = c]
               /\ returned' = NoReturn
    /\ UNCHANGED <<available, storage, now, lesson, quizWords, quizLessons, nav,
                   challenge, flash, prog, extract>>

\* getWordsForSession storing the defaults it ranked the candidates with
SelectReadPersisting(slot, ok) ==
    /\ calls[slot].op = "select"
    /\ calls[slot].pc = "reading"
    /\ LET c == [calls[slot] EXCEPT !.readOk = ok]
           scores == getMemoryScores(ok)
           scored == ScoredWords(c.allWords, scores)
       IN /\ returned' = Settled(c, "selected", RankedSession(c.allWords, c.count, scores))
          /\ storage' = Stored([id \in DOMAIN scores \cup {scored[i].word : i \in 1..Len(scored)} |->
                                  [score |-> ScoreOf(scores, id),
                                   lastSeen |-> LastSeenOf(scores, id)]])
    /\ calls' = [calls EXCEPT ![slot] = Idle]
    /\ UNCHANGED <<available, now, issued, lesson, quizWords, quizLessons, nav,
                   challenge, flash, prog, extract>>

\* getWordsForSession from the settled read to its return
SelectRead(slot, ok) ==
    /\ calls[slot].op = "select"
    /\ calls[slot].pc = "reading"
    /\ LET c == [calls[slot] EXCEPT !.readOk = ok]
       IN returned' = Settled(c, "selected",
                              RankedSession(c.allWords, c.count, getMemoryScores(ok)))
    /\ calls' = [calls EXCEPT ![slot] = Idle]
    /\ UNCHANGED <<available, storage, now, issued, lesson, quizWords, quizLessons, nav,
                   challenge, flash, prog, extract>>

\* time passes between two readings of Date.now()
Tick ==
    /\ now < MaxNow
    /\ now' = now + 1
    /\ UNCHANGED <<available, storage, calls, returned, issued, lesson, quizWords, quizLessons, nav,
                   challenge, flash, prog, extract>>

----------------------------------------------------------------------------
(* The memory service under concurrent callers *)

\* the identifiers the concurrent callers pass
RacingIds == {IdA, IdB}

\* the words of a completed lesson (extractWordsFromLessonData: distinct, not blank)
LessonWordLists == {<<IdA, IdB>>, <<IdB>>}

\* the candidate lists and counts of the callers
SessionPools == {<<Word(IdA), Word(IdB)>>, <<Word(IdB), Word(IdA)>>, <<>>}
SessionCounts == {1, 2}

Init ==
    /\ available \in BOOLEAN
    /\ storage = [present |-> FALSE, data |-> EmptyMemory]
    /\ now = 1
    /\ calls = [s \in Slots |-> Idle]
    /\ returned = NoReturn
    /\ issued = 0
    /\ lesson = NoLesson
    /\ quizWords = <<>>
    /\ quizLessons = <<>>
    /\ nav = NoNav
    /\ challenge = NoChallenge
    /\ flash = NoFlash
    /\ prog = NoProgress
    /\ extract = NoExtract

Next ==
    \/ \E slot \in Slots, wordId \in RacingIds, rating \in Ratings :
          SaveStart(slot, wordId, rating, MaxCalls)
    \/ \E slot \in Slots, ok \in BOOLEAN : SaveRead(slot, ok)
    \/ \E slot \in Slots, ok \in BOOLEAN : SaveWrite(slot, ok)
    \/ \E slot \in Slots, wordId \in RacingIds : AddStart(slot, wordId, MaxCalls)
    \/ \E slot \in Slots, ok \in BOOLEAN : AddRead(slot, ok)
    \/ \E slot \in Slots, ok \in BOOLEAN : AddWrite(slot, ok)
    \/ \E wordsToSave \in LessonWordLists : handleNextLesson(wordsToSave, MaxCalls)
    \/ \E slot \in Slots, allWords \in SessionPools, count \in SessionCounts :
          SelectStart(slot, allWords, count, MaxCalls)
    \/ \E slot \in Slots, ok \in BOOLEAN : SelectRead(slot, ok)
    \/ Tick

Spec == Init /\ [][Next]_vars

----------------------------------------------------------------------------
(* The memory service with every call awaited before the next is made *)

\* the identifiers the awaiting callers pass
WordIds == {IdA, IdB, IdEmpty, IdBlank, ProtoKey}

NextSeq ==
    \/ \E wordId \in WordIds, rating \in Ratings : SaveStart(1, wordId, rating, MaxSeqCalls)
    \/ \E ok \in BOOLEAN : SaveRead(1, ok)
    \/ \E ok \in BOOLEAN : SaveWrite(1, ok)
    \/ \E wordId \in WordIds : AddStart(1, wordId, MaxSeqCalls)
    \/ \E ok \in BOOLEAN : AddRead(1, ok)
    \/ \E ok \in BOOLEAN : AddWrite(1, ok)
    \/ \E allWords \in SessionPools, count \in SessionCounts :
          SelectStart(1, allWords, count, MaxSeqCalls)
    \/ \E ok \in BOOLEAN : SelectRead(1, ok)
    \/ Tick

SpecSeq == Init /\ [][NextSeq]_vars

----------------------------------------------------------------------------
(* getWordsForSession over the stores a session can meet: one call on each *)

SelIds == {IdA, IdB, IdC, IdD}

Rec(score, lastSeen) == [score |-> score, lastSeen |-> lastSeen]

\* the records each item can have: scores 0, 1 and 3, seen at 50, 100 or 200, with
\* items that tie on the score, and on the score and lastSeen both
SelRecordsOf ==
    (IdA :> {Rec(3, 100), Rec(0, 50)}) @@ (IdB :> {Rec(1, 200), Rec(1, 50)})
    @@ (IdC :> {Rec(1, 100), Rec(1, 200)}) @@ (IdD :> {Rec(1, 50), Rec(0, 50)})

SelStores ==
    UNION {{f \in [D -> UNION {SelRecordsOf[k] : k \in SelIds}] :
                \A k \in D : f[k] \in SelRecordsOf[k]} : D \in SUBSET SelIds}

\* the candidate lists: every list of distinct words
SelPools ==
    LET lists == UNION {[1..n -> SelIds] : n \in 0..Cardinality(SelIds)}
    IN {[i \in 1..Len(l) |-> Word(l[i])] :
            l \in {m \in lists : \A i, j \in 1..Len(m) : i # j => m[i] # m[j]}}

SelCounts == -1..(Cardinality(SelIds) + 1)

InitSel ==
    /\ available = TRUE
    /\ storage \in {Stored(d) : d \in SelStores}
    /\ now = 200
    /\ calls = [s \in Slots |-> Idle]
    /\ returned = NoReturn
    /\ issued = 0
    /\ lesson = NoLesson
    /\ quizWords = <<>>
    /\ quizLessons = <<>>
    /\ nav = NoNav
    /\ challenge = NoChallenge
    /\ flash = NoFlash
    /\ prog = NoProgress
    /\ extract = NoExtract

NextSel ==
    \/ \E allWords \in SelPools, count \in SelCounts :
          SelectStart(1, allWords, count, 1)
    \/ \E ok \in BOOLEAN : SelectRead(1, ok)

SpecSel == InitSel /\ [][NextSel]_vars

----------------------------------------------------------------------------
(* generateQuizLessons *)

\* the number of words a quiz needs
QuizSize == 7

\* the exchange that writes one of the two places only
SwapOverwriting(array, i, j) ==
    [array EXCEPT ![i] = array[j]]

\* array with the elements at i and j exchanged
Swap(array, i, j) ==
    [array EXCEPT ![i] = array[j], ![j] = array[i]]

\* the while loop of shuffleArray from currentIndex down; draws[k] is the value of
\* Math.floor(Math.random() * currentIndex) when currentIndex is k
RECURSIVE ShuffleFrom(_, _, _)
ShuffleFrom(array, currentIndex, draws) ==
    IF currentIndex = 0 THEN array
    ELSE ShuffleFrom(Swap(array, currentIndex, draws[currentIndex] + 1),
                     currentIndex - 1, draws)

\* shuffleArray (Fisher-Yates)
shuffleArray(array, draws) == ShuffleFrom(array, Len(array), draws)

\* the values the random indices of a shuffle of n elements can take
RECURSIVE Draws(_)
Draws(n) ==
    IF n = 0 THEN {<<>>}
    ELSE {Append(d, r) : d \in Draws(n - 1), r \in 0..(n - 1)}

\* (index + k).toString()
DigitString(n) == <<"0", "1", "2", "3", "4", "5", "6", "7", "8", "9">>[n + 1]

ErrorLesson ==
    [type |-> "error", signVideo |-> <<>>, correctAnswer |-> <<>>,
     options |-> <<>>, items |-> <<>>]

\* a translation lesson that drops the first of its options
TranslationLessonDroppingOption(target, options) ==
    [type |-> "translation", signVideo |-> target.signVideo,
     correctAnswer |-> target.word, options |-> Tail(options), items |-> <<>>]

\* a translation lesson: the sign of the target, its word, the options
TranslationLesson(target, options) ==
    [type |-> "translation", signVideo |-> target.signVideo,
     correctAnswer |-> target.word, options |-> options, items |-> <<>>]

\* a pair lesson built twice from the first word of the pair
MatchingPairsLessonSameWord(pair, firstId, draws) ==
    [type |-> "matching_pairs", signVideo |-> <<>>, correctAnswer |-> <<>>,
     options |-> <<>>,
     items |-> shuffleArray([index \in 1..Len(pair) |->
                                [signVideo |-> pair[1].signVideo,
                                 translation |-> pair[1].word,
                                 id |-> DigitString(index - 1 + firstId)]], draws)]

\* a matching pairs lesson: the words of the pair as items, shuffled
MatchingPairsLesson(pair, firstId, draws) ==
    [type |-> "matching_pairs", signVideo |-> <<>>, correctAnswer |-> <<>>,
     options |-> <<>>,
     items |-> shuffleArray([index \in 1..Len(pair) |->
                                [signVideo |-> pair[index].signVideo,
                                 translation |-> pair[index].word,
                                 id |-> DigitString(index - 1 + firstId)]], draws)]

\* the guard with the bound off by one
NotEnoughWordsOffByOne(words) == Len(words) <= QuizSize

\* !words || words.length < 7
NotEnoughWords(words) == Len(words) < QuizSize

\* generateQuizLessons; wordDraws, optionDraws and pairDraws are the random indices
\* of the shuffle of the words, of the options of a translation, of a pair
generateQuizLessons(words, wordDraws, optionDraws, pairDraws) ==
    IF NotEnoughWords(words) THEN <<ErrorLesson>>
    ELSE LET w == shuffleArray(words, wordDraws)
         IN << TranslationLesson(w[1],
                    shuffleArray(<<w[1].word, w[2].word, w[3].word, w[4].word>>, optionDraws)),
               MatchingPairsLesson(<<w[2], w[3]>>, 1, pairDraws),
               TranslationLesson(w[4],
                    shuffleArray(<<w[4].word, w[5].word, w[6].word, w[7].word>>, optionDraws)),
               MatchingPairsLesson(<<w[5], w[6]>>, 3, pairDraws),
               TranslationLesson(w[7],
                    shuffleArray(<<w[7].word, w[1].word, w[2].word, w[5].word>>, optionDraws)),
               MatchingPairsLesson(<<w[1], w[7]>>, 5, pairDraws) >>

\* a word of the catalog with its video
QuizWord(n) == [word |-> <<"w", DigitString(n)>>, signVideo |-> <<"v", DigitString(n)>>]

\* the pools handed to the generator: the first n words, n up to 7
QuizPools == {[i \in 1..n |-> QuizWord(i)] : n \in 0..QuizSize}

\* the lessons are generated from quizWords; the random indices of the three
\* option shuffles are taken equal, and so are those of the three pair shuffles
GenerateQuiz ==
    /\ quizLessons = <<>>
    /\ \E wordDraws \in Draws(Len(quizWords)), optionDraws \in Draws(4), pairDraws \in Draws(2) :
          quizLessons' = generateQuizLessons(quizWords, wordDraws, optionDraws, pairDraws)
    /\ UNCHANGED <<available, storage, now, calls, returned, issued, lesson, quizWords, nav,
                   challenge, flash, prog, extract>>

InitQuiz ==
    /\ available = TRUE
    /\ storage = [present |-> FALSE, data |-> EmptyMemory]
    /\ now = 1
    /\ calls = [s \in Slots |-> Idle]
    /\ returned = NoReturn
    /\ issued = 0
    /\ lesson = NoLesson
    /\ quizWords \in QuizPools
    /\ quizLessons = <<>>
    /\ nav = NoNav
    /\ challenge = NoChallenge
    /\ flash = NoFlash
    /\ prog = NoProgress
    /\ extract = NoExtract

NextQuiz == GenerateQuiz

SpecQuiz == InitQuiz /\ [][NextQuiz]_vars

----------------------------------------------------------------------------
(* Starting a practice session: the dictionary category screen, the practice home
   and the effect of the quiz screen *)

FLASHCARD_COUNT == 10
QUIZ_WORD_COUNT == 7

\* the words of the catalog the screens work with
CatalogSize == 8

\* the first n words of the catalog
FirstWords(n) == [i \in 1..n |-> QuizWord(i)]

\* getWordsForSession as the value it resolves to, scores being what its read gives
getWordsForSession(allWords, count, scores) ==
    IF Len(allWords) = 0 THEN <<>>
    ELSE IF ShortCircuit(allWords, count) THEN allWords
    ELSE LET session == RankedSession(allWords, count, scores)
         IN [i \in 1..Len(session) |->
                CHOOSE w \in {allWords[k] : k \in 1..Len(allWords)} : w.word = session[i]]

\* getAllWordsLearned: Object.keys of what the read gives
getAllWordsLearned(ok) == DOMAIN getMemoryScores(ok)

\* allWords.filter(word => learnedWordIds.includes(word.word))
RECURSIVE KnownWords(_, _)
KnownWords(allWords, learnedWordIds) ==
    IF allWords = <<>> THEN <<>>
    ELSE IF Head(allWords).word \in learnedWordIds
         THEN <<Head(allWords)>> \o KnownWords(Tail(allWords), learnedWordIds)
         ELSE KnownWords(Tail(allWords), learnedWordIds)

\* words.length < 7 in DictionaryWords.handleQuizPress
TooFewForQuiz(words) == Len(words) < 7

\* DictionaryWords.handleQuizPress up to its return or its await
handleQuizPress ==
    /\ nav.route = "DictionaryWords"
    /\ nav.pc = "idle"
    /\ nav' = IF TooFewForQuiz(nav.words)
              THEN [nav EXCEPT !.alert = "Not Enough Words"]
              ELSE [nav EXCEPT !.pc = "selecting", !.alert = "none"]
    /\ UNCHANGED <<available, storage, now, calls, returned, issued, lesson,
                   quizWords, quizLessons,
                   challenge, flash, prog, extract>>

\* DictionaryWords.handleQuizPress from the settled getWordsForSession on
handleQuizPressSelected(ok) ==
    /\ nav.route = "DictionaryWords"
    /\ nav.pc = "selecting"
    /\ quizWords' = getWordsForSession(nav.words, 7, getMemoryScores(ok))
    /\ nav' = [nav EXCEPT !.route = "QuizScreen", !.from = nav.route, !.pc = "idle"]
    /\ UNCHANGED <<available, storage, now, calls, returned, issued, lesson, quizLessons,
                   challenge, flash, prog, extract>>

\* PracticeHome.startPractice up to the await of fetchAllWords
startPractice(type) ==
    /\ nav.route = "PracticeHome"
    /\ nav.pc = "idle"
    /\ nav' = [nav EXCEPT !.pc = "fetching", !.type = type, !.alert = "none"]
    /\ UNCHANGED <<available, storage, now, calls, returned, issued, lesson,
                   quizWords, quizLessons,
                   challenge, flash, prog, extract>>

\* fetchAllWords settles: it is rejected, or it resolves to allWords
startPracticeFetched(fetched, allWords) ==
    /\ nav.route = "PracticeHome"
    /\ nav.pc = "fetching"
    /\ nav' = IF ~fetched THEN [nav EXCEPT !.pc = "idle", !.alert = "Error"]
              ELSE IF Len(allWords) = 0
              THEN [nav EXCEPT !.pc = "idle", !.alert = "No Words"]
              ELSE [nav EXCEPT !.pc = "learned", !.words = allWords]
    /\ UNCHANGED <<available, storage, now, calls, returned, issued, lesson,
                   quizWords, quizLessons,
                   challenge, flash, prog, extract>>

\* getAllWordsLearned settles: the known words are filtered out of allWords
startPracticeLearned(ok) ==
    /\ nav.route = "PracticeHome"
    /\ nav.pc = "learned"
    /\ LET knownWords == KnownWords(nav.words, getAllWordsLearned(ok))
       IN nav' = IF Len(knownWords) = 0
                 THEN [nav EXCEPT !.pc = "idle", !.alert = "Start Learning!",
                                  !.words = <<>>]
                 ELSE [nav EXCEPT !.pc = "selecting", !.words = knownWords]
    /\ UNCHANGED <<available, storage, now, calls, returned, issued, lesson,
                   quizWords, quizLessons,
                   challenge, flash, prog, extract>>

\* getWordsForSession settles: the warning, and the navigation
startPracticeSelected(ok) ==
    /\ nav.route = "PracticeHome"
    /\ nav.pc = "selecting"
    /\ LET requiredCount == IF nav.type = "flashcards" THEN FLASHCARD_COUNT
                            ELSE QUIZ_WORD_COUNT
           sessionWords == getWordsForSession(nav.words, requiredCount, getMemoryScores(ok))
           alert == IF Len(sessionWords) < requiredCount THEN "Not Enough Words"
                    ELSE "none"
       IN IF Len(sessionWords) < requiredCount /\ Len(sessionWords) = 0
          THEN /\ nav' = [nav EXCEPT !.pc = "idle", !.alert = alert, !.words = <<>>]
               /\ UNCHANGED quizWords
          ELSE IF nav.type = "flashcards"
          THEN /\ nav' = [nav EXCEPT !.route = "FlashcardScreen", !.from = nav.route,
                                     !.pc = "idle", !.alert = alert, !.words = <<>>,
                                     !.flashcardWords = sessionWords]
               /\ UNCHANGED quizWords
          ELSE /\ nav' = [nav EXCEPT !.route = "QuizScreen", !.from = nav.route,
                                     !.pc = "idle", !.alert = alert, !.words = <<>>]
               /\ quizWords' = sessionWords
    /\ UNCHANGED <<available, storage, now, calls, returned, issued, lesson, quizLessons,
                   challenge, flash, prog, extract>>

\* the effect of QuizScreen on its quizWords: the lessons, or the alert and goBack
QuizScreenEffect(wordDraws, optionDraws, pairDraws) ==
    /\ nav.route = "QuizScreen"
    /\ quizLessons = <<>>
    /\ IF Len(quizWords) >= 7
       THEN /\ Len(wordDraws) = Len(quizWords)
            /\ quizLessons' = generateQuizLessons(quizWords, wordDraws, optionDraws, pairDraws)
            /\ UNCHANGED nav
       ELSE /\ nav' = [nav EXCEPT !.route = nav.from, !.from = "none", !.alert = "Error"]
            /\ UNCHANGED quizLessons
    /\ UNCHANGED <<available, storage, now, calls, returned, issued, lesson, quizWords,
                   challenge, flash, prog, extract>>

\* the stores of a learner: the first k words of the catalog learned, never rated or
\* rated so that the scores alternate between 1 and 0
LearnedStores ==
    {[id \in {QuizWord(i).word : i \in 1..k} |-> Rec(0, 1)] : k \in 0..CatalogSize}
    \cup {[id \in {QuizWord(i).word : i \in 1..k} |->
              Rec(IF id = QuizWord(1).word \/ id = QuizWord(3).word THEN 1 ELSE 0, 1)]
            : k \in 1..CatalogSize}

\* random indices for the quiz of a started session: no element moves, or every
\* element is exchanged with the first
StartDraws(n) == {[k \in 1..n |-> k - 1], [k \in 1..n |-> 0]}

InitStart ==
    /\ available = TRUE
    /\ storage \in {[present |-> FALSE, data |-> EmptyMemory]}
                      \cup {Stored(d) : d \in LearnedStores}
    /\ now = 2
    /\ calls = [s \in Slots |-> Idle]
    /\ returned = NoReturn
    /\ issued = 0
    /\ lesson = NoLesson
    /\ quizWords = <<>>
    /\ quizLessons = <<>>
    /\ challenge = NoChallenge
    /\ flash = NoFlash
    /\ prog = NoProgress
    /\ extract = NoExtract
    /\ \E route \in {"PracticeHome", "DictionaryWords"}, n \in 0..CatalogSize :
          nav = [NoNav EXCEPT
                   !.route = route,
                   !.words = IF route = "DictionaryWords" THEN FirstWords(n) ELSE <<>>]

NextStart ==
    \/ handleQuizPress
    \/ \E ok \in BOOLEAN : handleQuizPressSelected(ok)
    \/ \E type \in {"flashcards", "quiz"} : startPractice(type)
    \/ \E fetched \in BOOLEAN, n \in 0..CatalogSize :
          startPracticeFetched(fetched, FirstWords(n))
    \/ \E ok \in BOOLEAN : startPracticeLearned(ok)
    \/ \E ok \in BOOLEAN : startPracticeSelected(ok)
    \/ \E wordDraws \in StartDraws(QUIZ_WORD_COUNT), optionDraws \in StartDraws(4),
          pairDraws \in StartDraws(2) :
          QuizScreenEffect(wordDraws, optionDraws, pairDraws)

SpecStart == InitStart /\ [][NextStart]_vars

----------------------------------------------------------------------------
(* A challenge on screen: its options or cards are shuffled, one is selected, and
   Check compares the selection with the answer *)

\* the quiz words in the order the challenges are built from
ChallengeWords == FirstWords(QuizSize)

\* the challenges before their shuffles: a translation with its target first among
\* its options, a pair with its two cards
NewChallenges ==
    {[NoChallenge EXCEPT !.kind = "translation", !.target = ChallengeWords[c[1]],
                         !.array = [i \in 1..4 |-> ChallengeWords[c[i]].word]]
        : c \in {<<1, 2, 3, 4>>, <<4, 5, 6, 7>>, <<7, 1, 2, 5>>}}
    \cup {[NoChallenge EXCEPT !.kind = "matching_pairs",
                              !.array = <<ChallengeWords[c[1]], ChallengeWords[c[2]]>>]
            : c \in {<<2, 3>>, <<5, 6>>, <<1, 7>>}}

\* generateQuizLessons builds the translation lesson: the options are shuffled
PushTranslation(draws) ==
    /\ challenge.kind = "translation"
    /\ challenge.options = <<>>
    /\ LET l == TranslationLesson(challenge.target, shuffleArray(challenge.array, draws))
       IN challenge' = [challenge EXCEPT !.options = l.options,
                                         !.correctAnswer = l.correctAnswer]
    /\ UNCHANGED <<available, storage, now, calls, returned, issued, lesson, quizWords,
                   quizLessons, nav, flash, prog, extract>>

\* generateQuizLessons builds the matching pairs lesson: the items are shuffled
PushMatchingPairs(draws) ==
    /\ challenge.kind = "matching_pairs"
    /\ challenge.items = <<>>
    /\ challenge' = [challenge EXCEPT
                       !.items = MatchingPairsLesson(challenge.array, 1, draws).items]
    /\ UNCHANGED <<available, storage, now, calls, returned, issued, lesson, quizWords,
                   quizLessons, nav, flash, prog, extract>>

\* the mount effect of MatchingPairsScreen: data.items is shuffled in place twice, and
\* both states are set to that one array
ShuffleCards(videoDraws, textDraws) ==
    /\ challenge.kind = "matching_pairs"
    /\ challenge.items # <<>>
    /\ challenge.shuffledVideos = <<>>
    /\ LET cards == shuffleArray(shuffleArray(challenge.items, videoDraws), textDraws)
       IN challenge' = [challenge EXCEPT !.items = cards, !.shuffledVideos = cards,
                                         !.shuffledTexts = cards]
    /\ UNCHANGED <<available, storage, now, calls, returned, issued, lesson, quizWords,
                   quizLessons, nav, flash, prog, extract>>

\* TranslationScreen.handleSelectOption with the option shown at `place`
handleSelectOption(place) ==
    /\ challenge.kind = "translation"
    /\ place \in 1..Len(challenge.options)
    /\ challenge' = [challenge EXCEPT !.selectedOption = challenge.options[place],
                                      !.showFeedback = FALSE]
    /\ UNCHANGED <<available, storage, now, calls, returned, issued, lesson, quizWords,
                   quizLessons, nav, flash, prog, extract>>

\* selectedOption === data.correctAnswer
IsCorrectOption(selectedOption, data) == selectedOption = data.correctAnswer

\* TranslationScreen.handleCheck
TranslationHandleCheck ==
    /\ challenge.kind = "translation"
    /\ challenge.selectedOption # <<>>
    /\ challenge' = [challenge EXCEPT
                       !.isCorrect = IsCorrectOption(challenge.selectedOption, challenge),
                       !.showFeedback = TRUE]
    /\ UNCHANGED <<available, storage, now, calls, returned, issued, lesson, quizWords,
                   quizLessons, nav, flash, prog, extract>>

\* MatchingPairsScreen.handleSelectVideo with the card shown at `place`
handleSelectVideo(place) ==
    /\ challenge.kind = "matching_pairs"
    /\ place \in 1..Len(challenge.shuffledVideos)
    /\ challenge' = [challenge EXCEPT !.selectedVideo = challenge.shuffledVideos[place],
                                      !.showFeedback = FALSE]
    /\ UNCHANGED <<available, storage, now, calls, returned, issued, lesson, quizWords,
                   quizLessons, nav, flash, prog, extract>>

\* MatchingPairsScreen.handleSelectText with the card shown at `place`
handleSelectText(place) ==
    /\ challenge.kind = "matching_pairs"
    /\ place \in 1..Len(challenge.shuffledTexts)
    /\ challenge' = [challenge EXCEPT !.selectedText = challenge.shuffledTexts[place],
                                      !.showFeedback = FALSE]
    /\ UNCHANGED <<available, storage, now, calls, returned, issued, lesson, quizWords,
                   quizLessons, nav, flash, prog, extract>>

\* selectedVideo.id === selectedText.id
IsCorrectPair(selectedVideo, selectedText) == selectedVideo.id = selectedText.id

\* MatchingPairsScreen.handleCheck
MatchingPairsHandleCheck ==
    /\ challenge.kind = "matching_pairs"
    /\ challenge.selectedVideo # NoItem
    /\ challenge.selectedText # NoItem
    /\ challenge' = [challenge EXCEPT
                       !.isCorrect = IsCorrectPair(challenge.selectedVideo,
                                                   challenge.selectedText),
                       !.showFeedback = TRUE]
    /\ UNCHANGED <<available, storage, now, calls, returned, issued, lesson, quizWords,
                   quizLessons, nav, flash, prog, extract>>

InitCheck ==
    /\ available = TRUE
    /\ storage = [present |-> FALSE, data |-> EmptyMemory]
    /\ now = 1
    /\ calls = [s \in Slots |-> Idle]
    /\ returned = NoReturn
    /\ issued = 0
    /\ lesson = NoLesson
    /\ quizWords = ChallengeWords
    /\ quizLessons = <<>>
    /\ nav = NoNav
    /\ challenge \in NewChallenges
    /\ flash = NoFlash
    /\ prog = NoProgress
    /\ extract = NoExtract

NextCheck ==
    \/ \E draws \in Draws(4) : PushTranslation(draws)
    \/ \E draws \in Draws(2) : PushMatchingPairs(draws)
    \/ \E videoDraws \in Draws(2), textDraws \in Draws(2) : ShuffleCards(videoDraws, textDraws)
    \/ \E place \in 1..4 : handleSelectOption(place)
    \/ TranslationHandleCheck
    \/ \E place \in 1..2 : handleSelectVideo(place)
    \/ \E place \in 1..2 : handleSelectText(place)
    \/ MatchingPairsHandleCheck

SpecCheck == InitCheck /\ [][NextCheck]_vars

----------------------------------------------------------------------------
(* A flashcard session: FlashcardScreen rates the current word and moves on *)

\* the word lists of a session
FlashcardLists == {<<Word(IdA)>>, <<Word(IdA), Word(IdB)>>}

\* FlashcardScreen.handleContinue: the answer and the rating buttons are shown
handleContinue ==
    /\ flash.words # <<>>
    /\ ~flash.complete
    /\ ~flash.isShowingAnswer
    /\ flash' = [flash EXCEPT !.isShowingAnswer = TRUE]
    /\ UNCHANGED <<available, storage, now, calls, returned, issued, lesson, quizWords,
                   quizLessons, nav, challenge, prog, extract>>

\* FlashcardScreen.handleRatingSelect
handleRatingSelect(rating) ==
    /\ flash.isShowingAnswer
    /\ ~flash.complete
    /\ flash' = [flash EXCEPT !.selectedRating = rating]
    /\ UNCHANGED <<available, storage, now, calls, returned, issued, lesson, quizWords,
                   quizLessons, nav, challenge, prog, extract>>

\* FlashcardScreen.handleAnswer up to its await: the button is enabled whenever a
\* rating is selected, also while an earlier press still awaits its save
handleAnswer(slot) ==
    /\ flash.isShowingAnswer
    /\ ~flash.complete
    /\ flash.selectedRating # "none"
    /\ flash.awaiting[slot] = -1
    /\ saveWordMemoryCalled(slot, flash.words[flash.currentIndex + 1].word,
                            flash.selectedRating, Len(flash.words) * MaxInFlight)
    /\ flash' = [flash EXCEPT !.awaiting[slot] = flash.currentIndex,
                              !.saves[flash.currentIndex + 1] = @ + 1]

\* FlashcardScreen.handleAnswer after its await, with the currentIndex it was
\* called with
handleAnswerResumes(slot) ==
    /\ flash.awaiting[slot] # -1
    /\ calls[slot].op = "idle"
    /\ flash' = IF flash.awaiting[slot] < Len(flash.words) - 1
                THEN [flash EXCEPT !.currentIndex = flash.awaiting[slot] + 1,
                                   !.isShowingAnswer = FALSE,
                                   !.selectedRating = "none",
                                   !.awaiting[slot] = -1]
                ELSE [flash EXCEPT !.complete = TRUE, !.awaiting[slot] = -1]
    /\ UNCHANGED <<available, storage, now, calls, returned, issued, lesson, quizWords,
                   quizLessons, nav, challenge, prog, extract>>

InitFlash ==
    /\ available = TRUE
    /\ storage = [present |-> FALSE, data |-> EmptyMemory]
    /\ now = 1
    /\ calls = [s \in Slots |-> Idle]
    /\ returned = NoReturn
    /\ issued = 0
    /\ lesson = NoLesson
    /\ quizWords = <<>>
    /\ quizLessons = <<>>
    /\ nav = NoNav
    /\ challenge = NoChallenge
    /\ \E words \in FlashcardLists :
          flash = [NoFlash EXCEPT !.words = words,
                                  !.awaiting = [s \in Slots |-> -1],
                                  !.saves = [i \in 1..Len(words) |-> 0]]
    /\ prog = NoProgress
    /\ extract = NoExtract

NextFlash ==
    \/ handleContinue
    \/ \E rating \in Ratings : handleRatingSelect(rating)
    \/ \E slot \in Slots : handleAnswer(slot)
    \/ \E slot \in Slots : handleAnswerResumes(slot)
    \/ \E slot \in Slots, ok \in BOOLEAN : SaveRead(slot, ok)
    \/ \E slot \in Slots, ok \in BOOLEAN : SaveWrite(slot, ok)

SpecFlash == InitFlash /\ [][NextFlash]_vars

----------------------------------------------------------------------------
(* The progress provider: userProgress is loaded once, and saved by an effect
   whenever it changes; the saves are not awaited, and the setItem calls in flight
   settle in any order *)

ModuleIds == {"m1", "m2"}

\* a UserProgress with each module of ids at n lessons completed
ProgressOf(ids, n) == [id \in ids |-> [lessonsCompleted |-> n]]

\* the progress written with nothing but the module updated
WithModuleAlone(prevProgress, moduleId, lessonsCompleted) ==
    moduleId :> [lessonsCompleted |-> lessonsCompleted]

\* {...prevProgress, [moduleId]: { lessonsCompleted }}
WithModule(prevProgress, moduleId, lessonsCompleted) ==
    [id \in DOMAIN prevProgress \cup {moduleId} |->
        IF id = moduleId THEN [lessonsCompleted |-> lessonsCompleted]
        ELSE prevProgress[id]]

\* loadUserProgress: the parsed value, {} when nothing is stored or getItem fails
loadUserProgress(ok) ==
    IF ok /\ prog.stored.present THEN prog.stored.data ELSE <<>>

\* loadProgress after its await: both states are set
loadProgress(ok) ==
    /\ prog.isLoadingProgress
    /\ prog' = [prog EXCEPT !.userProgress = loadUserProgress(ok),
                            !.isLoadingProgress = FALSE,
                            !.effectDue = TRUE,
                            !.loaded = loadUserProgress(ok),
                            !.given = <<>>]
    /\ UNCHANGED <<available, storage, now, calls, returned, issued, lesson, quizWords,
                   quizLessons, nav, challenge, flash, extract>>

\* the effect on [userProgress, isLoadingProgress]: saveUserProgress is called, not
\* awaited, unless the load is pending
PersistEffect ==
    /\ prog.effectDue
    /\ prog' = [prog EXCEPT
                  !.effectDue = FALSE,
                  !.saves = IF prog.isLoadingProgress THEN @ ELSE @ + 1,
                  !.queue = IF prog.isLoadingProgress THEN @
                            ELSE Append(@, [progress |-> prog.userProgress,
                                            save |-> prog.saves + 1])]
    /\ UNCHANGED <<available, storage, now, calls, returned, issued, lesson, quizWords,
                   quizLessons, nav, challenge, flash, extract>>

\* ProgressProvider.updateModuleProgress
updateModuleProgress(moduleId, lessonsCompleted) ==
    /\ prog.updates < MaxUpdates
    /\ prog' = [prog EXCEPT
                  !.userProgress = WithModule(@, moduleId, lessonsCompleted),
                  !.given = WithModule(@, moduleId, lessonsCompleted),
                  !.effectDue = TRUE,
                  !.updates = @ + 1]
    /\ UNCHANGED <<available, storage, now, calls, returned, issued, lesson, quizWords,
                   quizLessons, nav, challenge, flash, extract>>

\* the setItem of a saveUserProgress in flight settles: written, or rejected and
\* logged
saveUserProgress(place, ok) ==
    /\ place \in 1..Len(prog.queue)
    /\ prog' = [prog EXCEPT
                  !.stored = IF ok THEN [present |-> TRUE,
                                         data |-> prog.queue[place].progress]
                             ELSE @,
                  !.written = IF ok THEN prog.queue[place].save ELSE @,
                  !.queue = SubSeq(@, 1, place - 1) \o SubSeq(@, place + 1, Len(@))]
    /\ UNCHANGED <<available, storage, now, calls, returned, issued, lesson, quizWords,
                   quizLessons, nav, challenge, flash, extract>>

\* what storage holds under the progress key when the provider mounts
StoredProgress ==
    {[present |-> FALSE, data |-> <<>>]}
    \cup {[present |-> TRUE, data |-> ProgressOf(ids, 1)] : ids \in SUBSET ModuleIds}

InitProgress ==
    /\ available = TRUE
    /\ storage = [present |-> FALSE, data |-> EmptyMemory]
    /\ now = 1
    /\ calls = [s \in Slots |-> Idle]
    /\ returned = NoReturn
    /\ issued = 0
    /\ lesson = NoLesson
    /\ quizWords = <<>>
    /\ quizLessons = <<>>
    /\ nav = NoNav
    /\ challenge = NoChallenge
    /\ flash = NoFlash
    /\ \E stored \in StoredProgress :
          prog = [NoProgress EXCEPT !.stored = stored, !.initial = stored.data,
                                    !.effectDue = TRUE]
    /\ extract = NoExtract

NextProgress ==
    \/ \E ok \in BOOLEAN : loadProgress(ok)
    \/ PersistEffect
    \/ \E moduleId \in ModuleIds, lessonsCompleted \in 1..MaxLessons :
          updateModuleProgress(moduleId, lessonsCompleted)
    \/ \E place \in 1..(MaxUpdates + 1), ok \in BOOLEAN : saveUserProgress(place, ok)

SpecProgress == InitProgress /\ [][NextProgress]_vars

----------------------------------------------------------------------------
(* LessonScreen: the words taken from the payload of a completed lesson.
   A JavaScript value is a record of its type and, for a string, its characters; a
   property an object does not have reads as undefined *)

Undefined == [t |-> "undefined", s |-> <<>>]
Null == [t |-> "null", s |-> <<>>]
\* a value that is neither a string nor an object
Number == [t |-> "number", s |-> <<>>]
String(s) == [t |-> "string", s |-> s]

PayloadStrings == {IdEmpty, IdBlank, IdA, IdB}

\* what a property of an item or of the payload can hold
PropertyValues == {Number} \cup {String(s) : s \in PayloadStrings}

\* an element of a payload array that is not an object
Primitive(value) ==
    [t |-> value.t, s |-> value.s,
     translation |-> Undefined, signSentence |-> Undefined, word |-> Undefined]

\* an element that is an object with these properties
Object(translation, signSentence, word) ==
    [t |-> "object", s |-> <<>>,
     translation |-> translation, signSentence |-> signSentence, word |-> word]

PayloadItems ==
    {Primitive(Null)} \cup {Primitive(value) : value \in PropertyValues}
    \cup {Object(value, Undefined, Undefined) : value \in PropertyValues}
    \cup {Object(Undefined, value, Undefined) : value \in PropertyValues}
    \cup {Object(Undefined, Undefined, value) : value \in PropertyValues}
    \cup {Object(Undefined, Undefined, Undefined), Object(Undefined, String(IdA), String(IdB))}

PayloadArrays == UNION {[1..n -> PayloadItems] : n \in 0..MaxItems}

NoArray == [t |-> "undefined", array |-> <<>>]

\* a payload that is not an object: null, a number, a string
PrimitiveData(value) ==
    [t |-> value.t, s |-> value.s, array |-> <<>>, items |-> NoArray,
     correctAnswer |-> Undefined, word |-> Undefined]

\* a payload that is an array
ArrayData(array) ==
    [t |-> "array", s |-> <<>>, array |-> array, items |-> NoArray,
     correctAnswer |-> Undefined, word |-> Undefined]

\* a payload that is an object with these properties
ObjectData(items, correctAnswer, word) ==
    [t |-> "object", s |-> <<>>, array |-> <<>>, items |-> items,
     correctAnswer |-> correctAnswer, word |-> word]

LessonPayloads ==
    {PrimitiveData(Null), PrimitiveData(Number), PrimitiveData(String(IdA))}
    \cup {ArrayData(array) : array \in PayloadArrays}
    \cup {ObjectData([t |-> "array", array |-> array], Undefined, Undefined) :
             array \in PayloadArrays}
    \cup {ObjectData([t |-> "number", array |-> <<>>], Undefined, Undefined)}
    \cup {ObjectData(NoArray, value, Undefined) : value \in PropertyValues}
    \cup {ObjectData(NoArray, Undefined, value) : value \in PropertyValues}
    \cup {ObjectData(NoArray, Undefined, Undefined)}

LessonTypes ==
    {"matching_pairs", "translation", "sequencing", "fill_in_the_blank", "conversation",
     "unknown"}

\* value && typeof value === 'string'
TruthyString(value) == value.t = "string" /\ value.s # <<>>

\* matching_pairs: item.translation when it is a string that is not empty
TranslationOf(item) ==
    IF TruthyString(item.translation) THEN item.translation ELSE Null

\* sequencing, fill_in_the_blank, conversation: signSentence, then word, then the
\* item itself
SentenceOrWordOf(item) ==
    IF item.t = "object" /\ item.signSentence.t = "string" THEN item.signSentence
    ELSE IF item.t = "object" /\ item.word.t = "string" THEN item.word
    ELSE IF item.t = "string" THEN String(item.s)
    ELSE Null

\* any other type: word, then the item itself
WordOf(item) ==
    IF item.t = "object" /\ item.word.t = "string" THEN item.word
    ELSE IF item.t = "string" THEN String(item.s)
    ELSE Null

\* reading a property of null, or 'word' in a value that is not an object, is a
\* TypeError
ExtractThrows(data, lessonType) ==
    \/ /\ lessonType = "matching_pairs"
       /\ data.items.t = "array"
       /\ \E i \in 1..Len(data.items.array) : data.items.array[i].t = "null"
    \/ /\ lessonType \notin {"matching_pairs", "translation", "sequencing",
                             "fill_in_the_blank", "conversation"}
       /\ data.t = "array"
       /\ \E i \in 1..Len(data.array) : data.array[i].t \in {"null", "number"}

\* the switch on lessonType: the words before they are filtered
ExtractedWords(data, lessonType) ==
    CASE lessonType = "matching_pairs" ->
           IF data.items.t = "array"
           THEN [i \in 1..Len(data.items.array) |-> TranslationOf(data.items.array[i])]
           ELSE <<>>
      [] lessonType = "translation" ->
           IF TruthyString(data.correctAnswer) THEN <<data.correctAnswer>> ELSE <<>>
      [] lessonType \in {"sequencing", "fill_in_the_blank", "conversation"} ->
           IF data.t \in {"array", "object"} /\ data.word.t = "string"
           THEN <<data.word>>
           ELSE IF data.t = "array"
                THEN [i \in 1..Len(data.array) |-> SentenceOrWordOf(data.array[i])]
                ELSE <<>>
      [] OTHER ->
           IF data.t = "array"
           THEN [i \in 1..Len(data.array) |-> WordOf(data.array[i])]
           ELSE <<>>

\* word !== null && word.trim() !== ''
IsWord(word) == word.t # "null" /\ trim(word.s) # <<>>

\* Array.from(new Set(list)): the first occurrence of each value, in order
RECURSIVE ArrayFromSet(_)
ArrayFromSet(list) ==
    IF list = <<>> THEN <<>>
    ELSE LET front == ArrayFromSet(SubSeq(list, 1, Len(list) - 1))
             last == list[Len(list)]
         IN IF \E i \in 1..Len(front) : front[i] = last THEN front
            ELSE Append(front, last)

\* the filtered words without the Set
uniqueWordsRepeating(words) ==
    [i \in 1..Len(SelectSeq(words, IsWord)) |-> SelectSeq(words, IsWord)[i].s]

\* uniqueWords: the strings that are not blank, each once
uniqueWords(words) ==
    ArrayFromSet([i \in 1..Len(SelectSeq(words, IsWord)) |-> SelectSeq(words, IsWord)[i].s])

\* extractWordsFromLessonData returns
extractWordsFromLessonData ==
    /\ extract.pc = "idle"
    /\ extract.data.t = "null" \/ ~ExtractThrows(extract.data, extract.lessonType)
    /\ extract' = [extract EXCEPT
                     !.pc = "returned",
                     !.words = IF extract.data.t = "null" THEN <<>>
                               ELSE uniqueWords(ExtractedWords(extract.data,
                                                               extract.lessonType))]
    /\ UNCHANGED <<available, storage, now, calls, returned, issued, lesson, quizWords,
                   quizLessons, nav, challenge, flash, prog>>

\* extractWordsFromLessonData throws: handleNextLesson rejects before any
\* addWordMemory call
extractWordsFromLessonDataThrows ==
    /\ extract.pc = "idle"
    /\ extract.data.t # "null"
    /\ ExtractThrows(extract.data, extract.lessonType)
    /\ extract' = [extract EXCEPT !.pc = "threw"]
    /\ UNCHANGED <<available, storage, now, calls, returned, issued, lesson, quizWords,
                   quizLessons, nav, challenge, flash, prog>>

InitExtract ==
    /\ available = TRUE
    /\ storage = [present |-> FALSE, data |-> EmptyMemory]
    /\ now = 1
    /\ calls = [s \in Slots |-> Idle]
    /\ returned = NoReturn
    /\ issued = 0
    /\ lesson = NoLesson
    /\ quizWords = <<>>
    /\ quizLessons = <<>>
    /\ nav = NoNav
    /\ challenge = NoChallenge
    /\ flash = NoFlash
    /\ prog = NoProgress
    /\ \E data \in LessonPayloads, lessonType \in LessonTypes :
          extract = [NoExtract EXCEPT !.data = data, !.lessonType = lessonType]

NextExtract ==
    \/ extractWordsFromLessonData
    \/ extractWordsFromLessonDataThrows

SpecExtract == InitExtract /\ [][NextExtract]_vars

----------------------------------------------------------------------------
(* Claims about the memory scoring engine *)

\* an identifier that is empty or holds nothing but whitespace
IsBlankId(id) == \A i \in 1..Len(id) : id[i] = " "

\* the score the rating policy of the specification gives
PolicyScore(s, rating) ==
    IF rating = "Well" THEN s + 1
    ELSE IF rating = "Badly" THEN (IF s >= 2 THEN s - 2 ELSE 0)
    ELSE s

\* saveWordMemory has returned, the store being there and its read and write not failing
WorkingSave ==
    /\ returned.op = "save"
    /\ available
    /\ returned.readOk
    /\ returned.outcome \in {"written", "invalid"}

BatchSettles == lesson.pc = "awaiting" /\ lesson'.pc = "done"

\* C2: when addWordMemory is started concurrently for a batch of distinct ids none of
\* which has a record, and nothing else is running and no read or write fails, then
\* once all calls have completed every id of the batch has a record with score 0.
C2_BatchInitializesAll ==
    [][(BatchSettles /\ lesson'.fresh /\ ~lesson'.failed
            /\ issued = Len(lesson.words))
        => \A i \in 1..Len(lesson.words) :
              /\ lesson.words[i] \in DOMAIN storage'.data
              /\ storage'.data[lesson.words[i]].score = 0]_vars

\* the call in `slot` returns in this step
Returns(slot) == calls[slot].op # "idle" /\ calls'[slot].op = "idle"

\* C3: an item whose stored record has score s still has score s right after an
\* addWordMemory for that item performs its write or returns, whatever the
\* interleaving and the outcome of the read.
C3_AddNeverOverwrites ==
    [][\A slot \in Slots :
          (calls[slot].op = "add" /\ Returns(slot)
              /\ calls[slot].wordId \in DOMAIN storage.data)
          => /\ calls[slot].wordId \in DOMAIN storage'.data
             /\ storage'.data[calls[slot].wordId].score
                   = storage.data[calls[slot].wordId].score]_vars

\* C4: the set of item ids in the persisted mapping never loses an id.
C4_NeverDeletes ==
    [][DOMAIN storage.data \subseteq DOMAIN storage'.data]_vars

C8_FailureIsNoOp ==
    (/\ returned.op \in {"save", "add"}
     /\ (~available \/ ~returned.readOk \/ returned.outcome = "writeFailed"))
    => storage.data = returned.before

\* C9: addWordMemory with an id that is empty or blank creates no record and leaves
\* the persisted mapping as it was (here with the store working).
C9_BlankAddIsNoOp ==
    (/\ returned.op = "add"
     /\ IsBlankId(returned.wordId)
     /\ returned.readOk
     /\ returned.outcome # "writeFailed")
    => /\ storage.data = returned.before
       /\ returned.wordId \notin DOMAIN storage.data

\* C12: a write persists the score computed from the mapping its call read, not from
\* the mapping stored when it is applied: when two rateItem calls for one item are in
\* flight together and both read before either writes, the later write replaces the
\* earlier one and one call's effect is lost (two Well from s end at s+1).
C12_LastWriteWins ==
    (returned.op = "save" /\ returned.outcome = "written"
        /\ returned.wordId # ProtoKey)
    => /\ returned.wordId \in DOMAIN storage.data
       /\ storage.data[returned.wordId].score
             = PolicyScore(returned.currentScore, returned.rating)

\* a Well rating that read score 0 has been written over the score 1 that another
\* Well rating had stored in between: the item is at 1, not 2
C12_Witness ==
    /\ returned.op = "save"
    /\ returned.rating = "Well"
    /\ returned.outcome = "written"
    /\ returned.readOk
    /\ returned.wordId = IdA
    /\ returned.currentScore = 0
    /\ ScoreOf(returned.before, IdA) = 1
    /\ ScoreOf(storage.data, IdA) = 1
    /\ issued = 2

\* C13: initializeItem called on an item twice in sequence, each call awaited and the
\* store working, leaves after the second call the record the first call left (same
\* score, same lastSeen), and the second call writes nothing: a working call leaves a
\* record for its item, and a working call on an item that has a record returns
\* before setItem with the mapping as it was.
C13_InitializeIdempotent ==
    (returned.op = "add" /\ available /\ returned.readOk
        /\ returned.outcome # "writeFailed")
    => /\ returned.outcome \in {"written", "skipped"}
       /\ returned.wordId \in DOMAIN storage.data \/ returned.wordId = ProtoKey
       /\ (returned.wordId \in DOMAIN returned.before \/ returned.wordId = ProtoKey)
          => /\ returned.outcome = "skipped"
             /\ storage.data = returned.before

\* addWordMemory('a') has returned, a millisecond after 'a' got its record: nothing
\* was written and the record still has the lastSeen of the first call
C13_Witness ==
    /\ returned.op = "add"
    /\ returned.wordId = IdA
    /\ returned.readOk
    /\ returned.outcome = "skipped"
    /\ returned.before = (IdA :> [score |-> 0, lastSeen |-> 1])
    /\ storage.data = returned.before
    /\ now = 2
    /\ issued = 2

\* C18 as stated: every completed rateItem, whatever the rating, leaves the rated item
\* with a lastSeen strictly later than the lastSeen it had before the call (stated
\* here for the identifiers an object can hold as own keys).
C18_LastSeenStrictlyLater ==
    (returned.op = "save" /\ returned.outcome = "written"
        /\ returned.wordId # ProtoKey)
    => /\ returned.wordId \in DOMAIN storage.data
       /\ storage.data[returned.wordId].lastSeen
             > (IF returned.wordId \in DOMAIN returned.before
                THEN returned.before[returned.wordId].lastSeen ELSE 0)

\* C18 as amended: an awaited rateItem that writes gives the item, whatever the
\* rating, the lastSeen Date.now() had when the update was computed; the write stores
\* that value, which is not earlier than the lastSeen the item had (and equal to it
\* when both were taken in the same millisecond).
C18_LastSeenIsNow ==
    [][\A slot \in Slots :
         /\ (calls[slot].op = "save" /\ calls[slot].pc = "reading"
                /\ calls'[slot].pc = "writing" /\ calls[slot].wordId # ProtoKey)
            => /\ calls[slot].wordId \in DOMAIN calls'[slot].scores
               /\ calls'[slot].scores[calls[slot].wordId].lastSeen = now
         /\ (calls[slot].op = "save" /\ calls[slot].pc = "writing"
                /\ Returns(slot) /\ returned'.outcome = "written"
                /\ calls[slot].wordId # ProtoKey)
            => /\ calls[slot].wordId \in DOMAIN storage'.data
               /\ storage'.data[calls[slot].wordId].lastSeen
                     = calls[slot].scores[calls[slot].wordId].lastSeen
               /\ calls[slot].wordId \in DOMAIN storage.data
                     => storage'.data[calls[slot].wordId].lastSeen
                           >= storage.data[calls[slot].wordId].lastSeen
    ]_vars

\* 'a', seen at 1 with score 1, has been rated Partly at 2: same score, lastSeen 2
C18_Witness ==
    /\ returned.op = "save"
    /\ returned.rating = "Partly"
    /\ returned.outcome = "written"
    /\ returned.readOk
    /\ returned.wordId = IdA
    /\ IdA \in DOMAIN returned.before
    /\ returned.before[IdA] = [score |-> 1, lastSeen |-> 1]
    /\ storage.data[IdA] = [score |-> 1, lastSeen |-> 2]

\* C19: rateItem with an empty or whitespace-only identifier is rejected without an
\* exception: the call returns, nothing is written under that identifier and the
\* persisted mapping is what it was.
C19_BlankRateRejected ==
    (returned.op = "save" /\ IsBlankId(returned.wordId))
    => /\ returned.outcome \in {"invalid", "unavailable"}
       /\ storage.data = returned.before
       /\ returned.wordId \in DOMAIN storage.data
             => returned.wordId \in DOMAIN returned.before

\* saveWordMemory('  ', 'Well') has returned on a store that holds a record for 'a':
\* rejected, and the mapping still holds that record and no other
C19_Witness ==
    /\ returned.op = "save"
    /\ returned.wordId = IdBlank
    /\ returned.rating = "Well"
    /\ returned.outcome = "invalid"
    /\ DOMAIN storage.data = {IdA}
    /\ storage.data = returned.before

\* the call that returned last completed with the store working
WorkedThrough ==
    /\ available
    /\ returned.outcome \in {"written", "skipped", "invalid", "selected"}
    /\ returned.readOk

C24_OtherRecordsKept ==
    (WorkedThrough /\ returned.op \in {"save", "add"})
    => /\ \A id \in DOMAIN returned.before \ {returned.wordId} :
             /\ id \in DOMAIN storage.data
             /\ storage.data[id] = returned.before[id]
       /\ DOMAIN storage.data \subseteq DOMAIN returned.before \cup {returned.wordId}

\* 'b' has been rated Well at 2 in a store holding 'a' (score 0, seen at 1): 'b' has
\* its record and that of 'a' is as it was
C24_Witness ==
    /\ WorkedThrough
    /\ returned.op = "save"
    /\ returned.rating = "Well"
    /\ returned.outcome = "written"
    /\ returned.wordId = IdB
    /\ returned.before = (IdA :> [score |-> 0, lastSeen |-> 1])
    /\ storage.data = (IdA :> [score |-> 0, lastSeen |-> 1])
                         @@ (IdB :> [score |-> 1, lastSeen |-> 2])

----------------------------------------------------------------------------
(* Claims about the session selector *)

\* x is ranked no later than y: lower score first, then older lastSeen
RankedBefore(scores, x, y) ==
    \/ ScoreOf(scores, x) < ScoreOf(scores, y)
    \/ /\ ScoreOf(scores, x) = ScoreOf(scores, y)
       /\ LastSeenOf(scores, x) <= LastSeenOf(scores, y)

\* result is the first count words of some ordering of the candidates by score,
\* then lastSeen, the scores being those of the mapping `scores`
IsRankedPrefix(result, allWords, count, scores) ==
    \E perm \in Permutations(1..Len(allWords)) :
        /\ \A i, j \in 1..Len(allWords) :
              i < j => RankedBefore(scores, allWords[perm[i]].word, allWords[perm[j]].word)
        /\ result = [i \in 1..count |-> allWords[perm[i]].word]

\* the store and the candidates of the specification's example
ExampleStore ==
    (IdA :> [score |-> 3, lastSeen |-> 100]) @@ (IdB :> [score |-> 1, lastSeen |-> 200])
    @@ (IdC :> [score |-> 1, lastSeen |-> 100]) @@ (IdD :> [score |-> 1, lastSeen |-> 50])

ExamplePool == <<Word(IdA), Word(IdB), Word(IdC), Word(IdD)>>

\* getWordsForSession has returned from its ranking branch, asked for count >= 0
RankedReturn ==
    /\ returned.op = "select"
    /\ returned.count >= 0
    /\ Len(returned.allWords) > returned.count

\* C6 as stated: with more candidates than count, the result is the first count
\* candidates in the order of ascending stored score, then ascending stored
\* lastSeen (0 and 0 without a record); the example gives [D, C].
C6_RankedByStoredScores ==
    RankedReturn =>
        /\ IsRankedPrefix(returned.result, returned.allWords, returned.count, returned.before)
        /\ (returned.before = ExampleStore /\ returned.allWords = ExamplePool
                /\ returned.count = 2) => returned.result = <<IdD, IdC>>

\* C6 as amended: the same when the read of the store succeeds.
C6_RankedWhenRead ==
    (RankedReturn /\ returned.readOk) =>
        /\ IsRankedPrefix(returned.result, returned.allWords, returned.count, returned.before)
        /\ (returned.before = ExampleStore /\ returned.allWords = ExamplePool
                /\ returned.count = 2) => returned.result = <<IdD, IdC>>

\* the example: A(3), B(1, 200), C(1, 100), D(1, 50), count 2, has given [D, C]
C6_Witness ==
    /\ returned.op = "select"
    /\ returned.readOk
    /\ returned.before = ExampleStore
    /\ returned.allWords = ExamplePool
    /\ returned.count = 2
    /\ returned.result = <<IdD, IdC>>

\* C7: with no more candidates than count the result is the candidates, all of them
\* in their input order, whatever the stored scores.
C7_ShortCircuit ==
    (returned.op = "select" /\ Len(returned.allWords) <= returned.count)
        => returned.result = WordsOf(returned.allWords)

\* two candidates, count 2, the first with the higher stored score: returned as given
C7_Witness ==
    /\ returned.op = "select"
    /\ returned.allWords = <<Word(IdA), Word(IdD)>>
    /\ returned.count = 2
    /\ ScoreOf(storage.data, IdA) = 3
    /\ ScoreOf(storage.data, IdD) = 1
    /\ returned.result = <<IdA, IdD>>

----------------------------------------------------------------------------
(* Claims about the quiz generator *)

\* the identifiers a lesson shows: its options, or the translations of its items
IdentifiersOf(l) ==
    {l.options[i] : i \in 1..Len(l.options)}
        \cup {l.items[i].translation : i \in 1..Len(l.items)}

ChallengeTypes == {"translation", "matching_pairs"}

\* C10: with fewer than 7 words the generator returns the not-enough-words result and
\* no challenge; with exactly 7 words of distinct identifiers it returns, whatever
\* the shuffles give, exactly 6 challenges and every one of the 7 identifiers is
\* shown in at least one of them.
C10_QuizPrecondition ==
    quizLessons # <<>> =>
        /\ Len(quizWords) < 7 =>
              /\ quizLessons = <<ErrorLesson>>
              /\ \A i \in 1..Len(quizLessons) : quizLessons[i].type \notin ChallengeTypes
        /\ Len(quizWords) = 7 =>
              /\ Len(quizLessons) = 6
              /\ \A i \in 1..6 : quizLessons[i].type \in ChallengeTypes
              /\ \A k \in 1..7 : \E i \in 1..6 :
                    quizWords[k].word \in IdentifiersOf(quizLessons[i])

\* a quiz of 6 challenges has been generated from 7 words, the shuffle having moved
\* the first word away from the first challenge
C10_Witness ==
    /\ Len(quizWords) = 7
    /\ Len(quizLessons) = 6
    /\ quizLessons[1].correctAnswer # quizWords[1].word
    /\ quizLessons[5].correctAnswer = quizWords[1].word

\* getWordsForSession has returned from its ranking branch
SortedReturn ==
    /\ returned.op = "select"
    /\ Len(returned.allWords) > returned.count

\* wherever y is in the result, x is in it at an earlier place
PlacedBefore(result, x, y) ==
    \A j \in 1..Len(result) :
        result[j] = y => \E i \in 1..(j - 1) : result[i] = x

\* every candidate without a record is placed before every candidate whose record has
\* a positive score, or score 0 and a non-zero lastSeen
AbsentPlacedFirst ==
    LET ids == {returned.allWords[i].word : i \in 1..Len(returned.allWords)}
        stored == returned.before
    IN \A x \in ids \ DOMAIN stored, y \in ids \cap DOMAIN stored :
          (stored[y].score > 0 \/ (stored[y].score = 0 /\ stored[y].lastSeen # 0))
              => PlacedBefore(returned.result, x, y)

\* C15 as stated: in the ranking of selectSession (more candidates than count) a
\* candidate with no record is ranked before every candidate with a positive score and
\* before every candidate with score 0 and a non-zero lastSeen.
C15_AbsentRankedFirst ==
    SortedReturn => AbsentPlacedFirst

\* C15 as amended: the same when the read of the store succeeds.
C15_AbsentRankedFirstWhenRead ==
    (SortedReturn /\ returned.readOk) => AbsentPlacedFirst

\* candidates [a, c, b], a stored with (0, 50), c with score 1, b without a record,
\* count 2: b came first, then a
C15_Witness ==
    /\ returned.op = "select"
    /\ returned.readOk
    /\ returned.allWords = <<Word(IdA), Word(IdC), Word(IdB)>>
    /\ returned.count = 2
    /\ IdB \notin DOMAIN returned.before
    /\ IdA \in DOMAIN returned.before /\ returned.before[IdA] = Rec(0, 50)
    /\ IdC \in DOMAIN returned.before /\ returned.before[IdC].score = 1
    /\ returned.result = <<IdB, IdA>>

\* the record the store holds for an item, 0 and 0 when it holds none
StoredOrDefault(stored, id) ==
    IF id \in DOMAIN stored THEN stored[id] ELSE Rec(0, 0)

C17_SelectNeverThrows ==
    returned.op = "select" =>
        /\ returned.outcome = "selected"
        /\ Len(returned.allWords) = 0 => returned.result = <<>>
        /\ (~returned.readOk /\ returned.count >= 0
               /\ Len(returned.allWords) > returned.count)
           => /\ Len(returned.result) = returned.count
              /\ returned.result = [i \in 1..returned.count |-> returned.allWords[i].word]

\* the read has failed for candidates [a, b, c] with a stored at score 3 and b without
\* a record, count 2: the result is [a, b]
C17_Witness ==
    /\ returned.op = "select"
    /\ ~returned.readOk
    /\ returned.allWords = <<Word(IdA), Word(IdB), Word(IdC)>>
    /\ returned.count = 2
    /\ IdA \in DOMAIN storage.data /\ storage.data[IdA].score = 3
    /\ IdB \notin DOMAIN storage.data
    /\ returned.result = <<IdA, IdB>>

\* C25: for every candidate list and every integer count, zero and negative ones
\* included, selectSession returns min(max(count, 0), candidates.length) items, each
\* a different element of the candidate list; an empty list gives an empty result.
C25_ResultSize ==
    returned.op = "select" =>
        LET n == Len(returned.allWords)
            c == IF returned.count < 0 THEN 0 ELSE returned.count
        IN /\ Len(returned.result) = (IF c < n THEN c ELSE n)
           /\ \A i \in 1..Len(returned.result) :
                 \E k \in 1..n : returned.allWords[k].word = returned.result[i]
           /\ \A i, j \in 1..Len(returned.result) :
                 i # j => returned.result[i] # returned.result[j]
           /\ n = 0 => returned.result = <<>>

\* C14: selectSession is read-only with respect to the store: for every candidate list
\* and count, no step of it changes what is persisted (keys, scores, lastSeen), and no
\* record is created for a candidate that had none.
C14_SelectReadOnly ==
    [][returned'.op = "select" => storage' = storage]_vars

\* a ranked session holds 'b', which has no record, and 'b' still has none
C14_Witness ==
    /\ returned.op = "select"
    /\ returned.readOk
    /\ Len(returned.allWords) > returned.count
    /\ \E i \in 1..Len(returned.result) : returned.result[i] = IdB
    /\ IdB \notin DOMAIN storage.data
    /\ IdA \in DOMAIN storage.data
    /\ storage.data = returned.before

----------------------------------------------------------------------------
(* Claims about starting a quiz *)

\* C11: when fewer than 7 items are available for a quiz, every caller (the category
\* screen of the dictionary and the practice home) refuses to start it: the quiz
\* screen is never opened with a pool of fewer than 7 items.
C11_CallersRefuse ==
    nav.route = "QuizScreen" => Len(quizWords) >= 7

----------------------------------------------------------------------------
(* Claims about the generated quiz *)

\* a quiz has been generated from 7 words
QuizGenerated == Len(quizWords) = 7 /\ Len(quizLessons) = 6

\* the identifiers of the pool
PoolIds == {quizWords[k].word : k \in 1..Len(quizWords)}

\* the elements of a sequence
Range(s) == {s[i] : i \in 1..Len(s)}

\* C21: for a pool of 7 items with distinct identifiers and every outcome of the
\* shuffles, each of the 3 translation challenges has exactly 4 options, which are its
\* correct answer and the identifiers of 3 other items of the pool, the 4 distinct.
C21_TranslationOptions ==
    QuizGenerated =>
        \A i \in {1, 3, 5} :
            /\ quizLessons[i].type = "translation"
            /\ Len(quizLessons[i].options) = 4
            /\ Cardinality(Range(quizLessons[i].options)) = 4
            /\ quizLessons[i].correctAnswer \in Range(quizLessons[i].options)
            /\ Range(quizLessons[i].options) \subseteq PoolIds
            /\ \E k \in 1..7 : /\ quizWords[k].word = quizLessons[i].correctAnswer
                              /\ quizWords[k].signVideo = quizLessons[i].signVideo

\* a quiz whose first challenge shows its correct answer as the last of its 4 options
C21_Witness ==
    /\ QuizGenerated
    /\ quizLessons[1].type = "translation"
    /\ Len(quizLessons[1].options) = 4
    /\ quizLessons[1].options[4] = quizLessons[1].correctAnswer
    /\ quizLessons[1].correctAnswer # quizWords[1].word

\* the words shown by the pair challenge at place i
PairWords(i) == {quizLessons[i].items[k].translation : k \in 1..Len(quizLessons[i].items)}

\* every pair challenge is a matching_pairs lesson of exactly 2 items
PairsOfTwo ==
    \A i \in {2, 4, 6} :
        /\ quizLessons[i].type = "matching_pairs"
        /\ Len(quizLessons[i].items) = 2

\* the pool items shown by more than one pair challenge
InTwoPairs ==
    {id \in PoolIds : Cardinality({i \in {2, 4, 6} : id \in PairWords(i)}) > 1}

\* C22 as stated: for a pool of 7 items the 3 pair challenges hold 2 items each and
\* together show all 7 items of the pool, one item being in two of them.
C22_PairsCoverAll ==
    QuizGenerated =>
        /\ PairsOfTwo
        /\ PairWords(2) \cup PairWords(4) \cup PairWords(6) = PoolIds
        /\ Cardinality(InTwoPairs) = 1

\* C22 as amended: the 3 pair challenges hold 2 items each and together show 6 items
\* of the pool, each in one pair challenge only; the item left out is the correct
\* answer of the second translation challenge.
C22_PairsCoverSix ==
    QuizGenerated =>
        /\ PairsOfTwo
        /\ \A i \in {2, 4, 6} : Cardinality(PairWords(i)) = 2
        /\ InTwoPairs = {}
        /\ Cardinality(PairWords(2) \cup PairWords(4) \cup PairWords(6)) = 6
        /\ PoolIds \ (PairWords(2) \cup PairWords(4) \cup PairWords(6))
              = {quizLessons[3].correctAnswer}

\* a quiz whose pair challenges leave out the first word of the pool
C22_Witness ==
    /\ QuizGenerated
    /\ PairsOfTwo
    /\ quizWords[1].word \notin PairWords(2) \cup PairWords(4) \cup PairWords(6)
    /\ quizLessons[3].correctAnswer = quizWords[1].word

\* how many times x is in the sequence s
CountIn(s, x) == Cardinality({i \in 1..Len(s) : s[i] = x})

\* t holds the elements of s, each as many times as s does
IsPermutationOf(t, s) ==
    /\ Len(t) = Len(s)
    /\ \A x \in Range(s) \cup Range(t) : CountIn(t, x) = CountIn(s, x)

----------------------------------------------------------------------------
(* Claims about the flashcard session *)

\* C26: in a flashcard session each word is rated once and in the order of the list:
\* whatever the interleaving of the presses of the answer button, a second press
\* while the first still awaits its save included, saveWordMemory is called at most
\* once for a card, never for a card before the cards ahead of it, and exactly once
\* for every card of a completed session.
C26_RatedOncePerCard ==
    /\ \A i \in 1..Len(flash.saves) : flash.saves[i] <= 1
    /\ \A i, j \in 1..Len(flash.saves) : (i < j /\ flash.saves[j] > 0) => flash.saves[i] > 0
    /\ flash.complete => \A i \in 1..Len(flash.saves) : flash.saves[i] = 1

----------------------------------------------------------------------------
(* Claims about the progress provider *)

\* C27: the provider never overwrites the stored progress with its empty initial
\* state: no save is in flight while the initial load is pending, and every save made
\* after the load, the first one included, carries every module entry that was in
\* storage when the provider started, also when the load from storage fails; so the
\* stored progress keeps those entries.
C27_StoredProgressKept ==
    /\ prog.isLoadingProgress => prog.queue = <<>>
    /\ \A i \in 1..Len(prog.queue) : DOMAIN prog.initial \subseteq DOMAIN prog.queue[i].progress
    /\ DOMAIN prog.initial \subseteq DOMAIN prog.stored.data

\* the load is done, a module was updated since, no effect is due and no save is in
\* flight
ProgressSettled ==
    /\ ~prog.isLoadingProgress
    /\ prog.given # <<>>
    /\ ~prog.effectDue
    /\ prog.queue = <<>>

\* userProgress is what the load gave with the updates made since laid over it
LatestProgress ==
    [id \in DOMAIN prog.loaded \cup DOMAIN prog.given |->
        IF id \in DOMAIN prog.given THEN prog.given[id] ELSE prog.loaded[id]]

----------------------------------------------------------------------------
(* Claims about the words of a completed lesson *)

\* C29: the list extractWordsFromLessonData returns, whose words handleNextLesson
\* passes to the concurrent addWordMemory calls, has no word twice and no empty or
\* whitespace-only string, for every lesson type and payload: no two calls of a
\* batch target the same key.
C29_WordsDistinctNotBlank ==
    extract.pc = "returned" =>
        /\ \A i, j \in 1..Len(extract.words) :
              extract.words[i] = extract.words[j] => i = j
        /\ \A i \in 1..Len(extract.words) :
              extract.words[i] # <<>> /\ trim(extract.words[i]) # <<>>

\* a conversation payload of an item with signSentence "a" (and word "b") and the
\* string "a": one word, "a"
C29_Witness ==
    /\ extract.pc = "returned"
    /\ extract.lessonType = "conversation"
    /\ extract.data = ArrayData(<<Object(Undefined, String(IdA), String(IdB)),
                                  Primitive(String(IdA))>>)
    /\ extract.words = <<IdA>>

====
